---- MODULE Spec2Model ----
(***************************************************************************)
(* Fair purchase-intent queue of the ticketing platform.                   *)
(*                                                                         *)
(* State: the three tables (events, tickets, purchase_intents), the wall   *)
(* clock, and the position of every asynchronous call that is in flight:   *)
(* intake requests (TicketService.purchaseTickets), cancellations          *)
(* (TicketService.cancelPurchaseIntent), processIntent invocations of the  *)
(* queue processors (QueueService) and the allocator transactions they     *)
(* start (EventRepository.purchaseTickets).  Every await of the source is  *)
(* a point where other calls interleave, so a call is one action per       *)
(* database round trip.                                                    *)
(***************************************************************************)
EXTENDS Integers, Sequences, FiniteSets, Bags, TLC

\* ---------------------------------------------------------------- bounds
NumEvents == 1
NumSessions == 2
NumProcs == 1
MaxIntents == 2
MaxQuantity == 2
MaxReqs == 1
MaxFaults == 1
MaxSmallSteps == 1
TotalTickets == 2
OutageFaults == 3

\* ------------------------------------------------------ program constants
MAX_CONCURRENT_PROCESSING == 5
INTENT_EXPIRY_MINUTES == 30
MAX_RETRY_ATTEMPTS == 3
MinQuantity == 1
MaxDtoQuantity == 10
InitialVersion == 1

Events == 1..NumEvents
Sessions == 1..NumSessions
Procs == 1..NumProcs
Quantities == 1..MaxQuantity
ReqSlots == 1..MaxReqs
\* one more request in flight, for the specification of concurrent intake
IntakeSlots == 1..(MaxReqs + 1)
\* ids the intents table can hold in any specification
TaskIntentIds == 1..(MaxIntents + 1)
Attempts == 1..MAX_RETRY_ATTEMPTS

\* The clock is Date.now() in milliseconds.  It moves by one millisecond or
\* jumps past the expiry age; every event starts EventDate ms after time 0.
ExpiryMs == INTENT_EXPIRY_MINUTES * 60 * 1000
EventDate == ExpiryMs
ClockSteps == {1, ExpiryMs + 1}
ClockValues == (0..MaxSmallSteps) \cup ((ExpiryMs + 1)..(ExpiryMs + 1 + MaxSmallSteps))

VARIABLES
  now,          \* Date.now(), milliseconds
  events,       \* events table: id -> row
  tickets,      \* tickets table: bag of rows [event_id, purchase_id]
  intents,      \* purchase_intents table: sequence of rows, id = index
  reqs,         \* intake requests in flight and their responses
  cancels,      \* the cancellation call in flight, its response, and the
                \* intents whose cancellation was answered with success
  tasks,        \* processIntent invocations: <<proc, intent>> -> position
  allocs,       \* purchaseTickets transactions: <<proc, intent, attempt>>
  completedLog, \* intent ids in the order of their COMPLETED writes
  faults,       \* timeouts and database errors still to come
  queries       \* the read-only call in flight (queue position, queue
                \* statistics or the event discovery of a tick) and its
                \* response

vars == <<now, events, tickets, intents, reqs, cancels, tasks, allocs,
          completedLog, faults, queries>>

\* ----------------------------------------------------------- entities
\* PurchaseIntentStatus
WAITING == "waiting"
PROCESSING == "processing"
COMPLETED == "completed"
FAILED == "failed"
EXPIRED == "expired"

\* PurchaseIntent.isActive
IsActive(status) == status \in {WAITING, PROCESSING}

\* PurchaseIntent.isCompleted
IsCompleted(status) == status \in {COMPLETED, FAILED, EXPIRED}

\* PurchaseIntent.generateTimestamp: milliseconds to microseconds
GenerateTimestamp(nowMs) == nowMs * 1000

\* the expiry check with the limit included
ShouldExpireAtLimit(ts, memStatus, nowMs, maxAgeMinutes) ==
  /\ nowMs * 1000 - ts >= maxAgeMinutes * 60 * 1000 * 1000
  /\ memStatus = WAITING

\* PurchaseIntent.shouldExpire, on the in-memory row the batch query returned:
\* (now - ts/1000) / 60000 > maxAgeMinutes, multiplied out to stay in integers
ShouldExpire(ts, memStatus, nowMs, maxAgeMinutes) ==
  /\ nowMs * 1000 - ts > maxAgeMinutes * 60 * 1000 * 1000
  /\ memStatus = WAITING

\* Event.hasAvailableTickets
HasAvailableTickets(ev, quantity) == ev.available_tickets >= quantity

\* CHECK constraints of the events table
EventChecks(ev) ==
  /\ ev.available_tickets >= 0
  /\ ev.total_tickets >= 0
  /\ ev.available_tickets <= ev.total_tickets

\* the validation with the upper limit off by one
ValidQuantityLoose(q) == q >= MinQuantity /\ q <= MaxDtoQuantity + 1

\* PurchaseTicketDto validation of quantity
ValidQuantity(q) == q >= MinQuantity /\ q <= MaxDtoQuantity

\* ------------------------------------------------------------- queries
AllIntents == 1..Len(intents)

IntentsOf(e) == {i \in AllIntents : intents[i].event_id = e}

\* PurchaseIntentRepository.getIntentBySessionAndEvent: the rows that match;
\* findOne returns one of them
ActiveIntentsOf(s, e) ==
  {i \in AllIntents : /\ intents[i].user_session_id = s
                      /\ intents[i].event_id = e
                      /\ IsActive(intents[i].status)}

\* PurchaseIntentRepository.getNextIntentsToProcess: the possible results of
\* WHERE event_id = e AND status = 'waiting' ORDER BY request_timestamp ASC
\* LIMIT limit (rows with equal timestamps come in any order)
\* the query without its status condition
WaitingOfAnyStatus(e) == IntentsOf(e)

WaitingOf(e) == {i \in IntentsOf(e) : intents[i].status = WAITING}

Min2(a, b) == IF a < b THEN a ELSE b

\* the query without its ORDER BY: any rows up to the limit
NextIntentsUnordered(e, limit) ==
  {S \in SUBSET WaitingOf(e) :
     Cardinality(S) = Min2(limit, Cardinality(WaitingOf(e)))}

NextIntentsToProcess(e, limit) ==
  {S \in SUBSET WaitingOf(e) :
     /\ Cardinality(S) = Min2(limit, Cardinality(WaitingOf(e)))
     /\ \A a \in S : \A b \in WaitingOf(e) \ S :
          intents[a].request_timestamp <= intents[b].request_timestamp}

\* tickets rows
TicketRow(e, i) == [event_id |-> e, purchase_id |-> i]
TicketsOfPurchase(i) ==
  LET rows == {t \in BagToSet(tickets) : t.purchase_id = i}
      RECURSIVE Sum(_)
      Sum(R) == IF R = {} THEN 0
                ELSE LET t == CHOOSE x \in R : TRUE
                     IN CopiesIn(t, tickets) + Sum(R \ {t})
  IN Sum(rows)
TicketsOfEvent(e) ==
  LET rows == {t \in BagToSet(tickets) : t.event_id = e}
      RECURSIVE Sum(_)
      Sum(R) == IF R = {} THEN 0
                ELSE LET t == CHOOSE x \in R : TRUE
                     IN CopiesIn(t, tickets) + Sum(R \ {t})
  IN Sum(rows)

\* ---------------------------------------------------------------- Init
NoTask == [pc |-> "idle", attempts |-> 0]
NoAlloc == [st |-> "none", available_tickets |-> 0, version |-> 0]
NoReq == [pc |-> "free", session |-> 0, event |-> 0, quantity |-> 0,
          success |-> FALSE, intent_id |-> 0, error |-> "none", stamp |-> 0]
NoCancel == [pc |-> "free", intent |-> 0, session |-> 0, result |-> "none",
             cancelled |-> {}]

Statuses == {WAITING, PROCESSING, COMPLETED, FAILED, EXPIRED}
NoQuery == [pc |-> "free", kind |-> "none", intent |-> 0, target |-> 0,
            position |-> 0, event |-> 0, left |-> {},
            counts |-> [st \in Statuses |-> 0], first |-> 0,
            proc |-> 0, todo |-> {}, found |-> {}, previous |-> 0]

\* EventService.createEvent: available_tickets = total_tickets, version 1
NewEvent(date, total) ==
  [date |-> date, total_tickets |-> total, available_tickets |-> total,
   version |-> InitialVersion]

Init ==
  /\ now = 0
  /\ events = [e \in Events |-> NewEvent(EventDate, TotalTickets)]
  /\ tickets = EmptyBag
  /\ intents = << >>
  /\ reqs = [r \in IntakeSlots |-> NoReq]
  /\ cancels = NoCancel
  /\ tasks = [k \in Procs \X TaskIntentIds |-> NoTask]
  /\ allocs = [k \in Procs \X TaskIntentIds \X Attempts |-> NoAlloc]
  /\ completedLog = << >>
  /\ faults = MaxFaults
  /\ queries = NoQuery

\* --------------------------------------------------------------- clock
Advance(d) ==
  /\ now + d \in ClockValues
  /\ now' = now + d
  /\ UNCHANGED <<events, tickets, intents, reqs, cancels, tasks, allocs,
                 completedLog, faults, queries>>

\* ---------------------------------------- PurchaseIntentRepository writes
\* createIntent: a WAITING row stamped with generateTimestamp() at nowMs
NewIntent(e, s, q, nowMs) ==
  [event_id |-> e, user_session_id |-> s, requested_quantity |-> q,
   request_timestamp |-> GenerateTimestamp(nowMs), status |-> WAITING]

\* updateIntentStatus: UPDATE ... SET status WHERE id = intentId
UpdateIntentStatus(table, i, status) == [table EXCEPT ![i].status = status]

\* the claim without its status condition: UPDATE ... WHERE id = intentId
MarkAffectedAnyStatus(table, i) == i \in DOMAIN table

\* markIntentAsProcessing: UPDATE ... WHERE id = intentId AND status = 'waiting';
\* true when a row was affected
MarkAffected(table, i) == table[i].status = WAITING
MarkIntentAsProcessing(table, i) ==
  IF MarkAffected(table, i) THEN UpdateIntentStatus(table, i, PROCESSING)
  ELSE table

\* the cutoff left in milliseconds
CleanupCutoffMs(nowMs, maxAgeMinutes) == nowMs - maxAgeMinutes * 60 * 1000

\* cleanupExpiredIntents: WAITING rows older than the cutoff become EXPIRED
CleanupCutoff(nowMs, maxAgeMinutes) == (nowMs - maxAgeMinutes * 60 * 1000) * 1000
CleanupExpired(table, nowMs, maxAgeMinutes) ==
  [i \in DOMAIN table |->
     IF /\ table[i].status = WAITING
        /\ table[i].request_timestamp < CleanupCutoff(nowMs, maxAgeMinutes)
     THEN [table[i] EXCEPT !.status = EXPIRED]
     ELSE table[i]]

\* -------------------------------------- intake: TicketService.purchaseTickets
\* the availability check without its date condition
CheckEventAvailabilityAnyDate(e, q) == HasAvailableTickets(events[e], q)

\* EventService.checkEventAvailability
CheckEventAvailability(e, q) ==
  HasAvailableTickets(events[e], q) /\ events[e].date > now

\* Request received and availability checked: NotFoundException for an event
\* that does not exist, success = false at once for an unavailable one.  A
\* slot keeps the response of its last request until the next request arrives.
IntakeStart(r, s, e, q) ==
  /\ reqs[r].pc \in {"free", "done"}
  /\ ValidQuantity(q)
  /\ reqs' = [reqs EXCEPT ![r] =
       IF e \notin DOMAIN events
       THEN [NoReq EXCEPT !.pc = "done", !.session = s, !.event = e,
                          !.error = "not_found"]
       ELSE IF CheckEventAvailability(e, q)
       THEN [NoReq EXCEPT !.pc = "lookup", !.session = s, !.event = e,
                          !.quantity = q]
       ELSE [NoReq EXCEPT !.pc = "done", !.session = s, !.event = e,
                          !.error = "unavailable"]]
  /\ UNCHANGED <<now, events, tickets, intents, cancels, tasks, allocs,
                 completedLog, faults, queries>>

\* The ValidationPipe refuses a body whose quantity fails the validation of
\* PurchaseTicketDto: the controller method is not called.
IntakeInvalid(r, s, e, q) ==
  /\ reqs[r].pc \in {"free", "done"}
  /\ ~ValidQuantity(q)
  /\ reqs' = [reqs EXCEPT ![r] =
       [NoReq EXCEPT !.pc = "done", !.session = s, !.event = e,
                     !.quantity = q, !.error = "invalid"]]
  /\ UNCHANGED <<now, events, tickets, intents, cancels, tasks, allocs,
                 completedLog, faults, queries>>

\* getIntentBySessionAndEvent: an active intent of the pair is returned as the
\* handle, otherwise the request goes on to create one: createIntent builds the
\* row, stamped with generateTimestamp(), and awaits its save.
IntakeLookup(r) ==
  /\ reqs[r].pc = "lookup"
  /\ IF ActiveIntentsOf(reqs[r].session, reqs[r].event) = {}
     THEN reqs' = [reqs EXCEPT ![r].pc = "create", ![r].stamp = now]
     ELSE \E i \in ActiveIntentsOf(reqs[r].session, reqs[r].event) :
            reqs' = [reqs EXCEPT ![r].pc = "done", ![r].quantity = 0,
                                 ![r].success = TRUE, ![r].intent_id = i]
  /\ UNCHANGED <<now, events, tickets, intents, cancels, tasks, allocs,
                 completedLog, faults, queries>>

\* the save of createIntent (the INSERT of the stamped row) and the success
\* response
IntakeCreate(r) ==
  /\ reqs[r].pc = "create"
  /\ Len(intents) < MaxIntents
  /\ intents' = Append(intents, NewIntent(reqs[r].event, reqs[r].session,
                                          reqs[r].quantity, reqs[r].stamp))
  /\ reqs' = [reqs EXCEPT ![r].pc = "done", ![r].quantity = 0,
                          ![r].success = TRUE, ![r].stamp = 0,
                          ![r].intent_id = Len(intents) + 1]
  /\ UNCHANGED <<now, events, tickets, cancels, tasks, allocs,
                 completedLog, faults, queries>>

\* ------------------------- cancellation: TicketService.cancelPurchaseIntent
\* findById, the ownership check and the isActive check; a request that fails
\* a check is answered without a write: BadRequestException for another
\* session's intent, success = false for an intent that is not active.
\* a handler that forgets the ownership check
CancelResultAnyOwner(row, s) ==
  IF ~IsActive(row.status) THEN "not_cancellable" ELSE "none"

\* a handler that forgets the isActive check
CancelResultAnyStatus(row, s) ==
  IF row.user_session_id # s THEN "forbidden" ELSE "none"

CancelResult(row, s) ==
  IF row.user_session_id # s THEN "forbidden"
  ELSE IF ~IsActive(row.status) THEN "not_cancellable"
  ELSE "none"

CancelRead(i, s) ==
  /\ i \in AllIntents
  /\ cancels.pc = "free"
  /\ cancels' =
       [cancels EXCEPT
          !.pc = IF CancelResult(intents[i], s) = "none" THEN "write" ELSE "done",
          !.intent = i,
          !.session = s,
          !.result = CancelResult(intents[i], s)]
  /\ UNCHANGED <<now, events, tickets, intents, reqs, tasks, allocs,
                 completedLog, faults, queries>>

\* a cancellation that also takes back the tickets of the intent: their rows
\* are deleted and the counter of the event is raised
CancelWriteRefund(i) ==
  /\ cancels.pc = "write"
  /\ cancels.intent = i
  /\ intents' = UpdateIntentStatus(intents, i, EXPIRED)
  /\ cancels' = [cancels EXCEPT !.pc = "done", !.result = "ok",
                                !.cancelled = @ \cup {i}]
  /\ tickets' = [t \in {x \in DOMAIN tickets : x.purchase_id # i} |-> tickets[t]]
  /\ events' = [events EXCEPT ![intents[i].event_id].available_tickets =
                                @ + TicketsOfPurchase(i)]
  /\ UNCHANGED <<now, reqs, tasks, allocs, completedLog, faults, queries>>

\* updateIntentStatus(intentId, EXPIRED) and the success response
CancelWrite(i) ==
  /\ cancels.pc = "write"
  /\ cancels.intent = i
  /\ intents' = UpdateIntentStatus(intents, i, EXPIRED)
  /\ cancels' = [cancels EXCEPT !.pc = "done", !.result = "ok",
                                !.cancelled = @ \cup {i}]
  /\ UNCHANGED <<now, events, tickets, reqs, tasks, allocs, completedLog,
                 faults, queries>>

\* The response reaches the caller; it is handed over as soon as it exists.
CancelReturn ==
  /\ cancels.pc = "done"
  /\ cancels' = [NoCancel EXCEPT !.cancelled = cancels.cancelled]
  /\ UNCHANGED <<now, events, tickets, intents, reqs, tasks, allocs,
                 completedLog, faults, queries>>

\* ------------------- queue position: QueueController.getIntentStatus and
\* PurchaseIntentRepository.getQueuePosition
\* the count of getQueuePosition for the row t it found: the active intents of
\* the event of t with a smaller request_timestamp
IntentsAhead(t) ==
  {j \in IntentsOf(intents[t].event_id) :
     /\ IsActive(intents[j].status)
     /\ intents[j].request_timestamp < intents[t].request_timestamp}

\* getIntentStatus(i): findById, and the position is asked for only when the
\* intent is active
PositionStart(i) ==
  /\ i \in AllIntents
  /\ queries.pc = "free"
  /\ queries' = [NoQuery EXCEPT
       !.pc = IF IsActive(intents[i].status) THEN "find" ELSE "done",
       !.kind = "position",
       !.intent = i]
  /\ UNCHANGED <<now, events, tickets, intents, reqs, cancels, tasks, allocs,
                 completedLog, faults>>

\* getQueuePosition(session, event): findOne returns one of the active
\* intents of the pair, or null
PositionFind ==
  /\ queries.pc = "find"
  /\ LET found == ActiveIntentsOf(intents[queries.intent].user_session_id,
                                  intents[queries.intent].event_id)
     IN IF found = {}
        THEN queries' = [queries EXCEPT !.pc = "done"]
        ELSE \E t \in found :
               queries' = [queries EXCEPT !.pc = "count", !.target = t]
  /\ UNCHANGED <<now, events, tickets, intents, reqs, cancels, tasks, allocs,
                 completedLog, faults>>

\* the count query and position = intentsAhead + 1
PositionCount ==
  /\ queries.pc = "count"
  /\ queries' = [queries EXCEPT
       !.pc = "done",
       !.position = Cardinality(IntentsAhead(queries.target)) + 1]
  /\ UNCHANGED <<now, events, tickets, intents, reqs, cancels, tasks, allocs,
                 completedLog, faults>>

\* ------------------- queue statistics: QueueController.getEventQueueStats
\* and PurchaseIntentRepository.getEventQueueStats
\* count({event_id, status})
CountStatus(e, st) == Cardinality({i \in IntentsOf(e) : intents[i].status = st})

\* The call starts: the five count queries are issued by one Promise.all, and
\* each is a statement of its own.  first remembers how many intents the
\* event has when the call starts.
StatsStart(e) ==
  /\ e \in DOMAIN events
  /\ queries.pc = "free"
  /\ queries' = [NoQuery EXCEPT !.pc = "stats", !.kind = "stats", !.event = e,
                                !.left = Statuses,
                                !.first = Cardinality(IntentsOf(e))]
  /\ UNCHANGED <<now, events, tickets, intents, reqs, cancels, tasks, allocs,
                 completedLog, faults>>

\* One of the count queries runs; the call returns when all five have.
StatsCount(st) ==
  /\ queries.pc = "stats"
  /\ st \in queries.left
  /\ queries' = [queries EXCEPT
       !.pc = IF queries.left = {st} THEN "done" ELSE "stats",
       !.left = @ \ {st},
       !.counts[st] = CountStatus(queries.event, st)]
  /\ UNCHANGED <<now, events, tickets, intents, reqs, cancels, tasks, allocs,
                 completedLog, faults>>

\* the response of a read-only call is handed to the caller
QueryReturn ==
  /\ queries.pc = "done"
  /\ queries' = NoQuery
  /\ UNCHANGED <<now, events, tickets, intents, reqs, cancels, tasks, allocs,
                 completedLog, faults>>

\* ------------------------------ sweeper: QueueService.cleanupExpiredIntents
Sweep ==
  /\ intents' = CleanupExpired(intents, now, INTENT_EXPIRY_MINUTES)
  /\ UNCHANGED <<now, events, tickets, reqs, cancels, tasks, allocs,
                 completedLog, faults, queries>>

\* ------------------------------------------- processor: QueueService tick
\* processQueues -> processEventQueue(e): the batch query, then one
\* processIntent per row of the batch, all started before any is awaited.
\* A processor has at most one invocation per intent in this model.
Tick(p, e) ==
  /\ \E S \in NextIntentsToProcess(e, MAX_CONCURRENT_PROCESSING) :
       LET spawn == {i \in S : tasks[<<p, i>>].pc = "idle"}
       IN /\ spawn # {}
          /\ tasks' = [k \in DOMAIN tasks |->
                         IF k[1] = p /\ k[2] \in spawn
                         THEN [pc |-> "claim", attempts |-> 0]
                         ELSE tasks[k]]
  /\ UNCHANGED <<now, events, tickets, intents, reqs, cancels, allocs,
                 completedLog, faults, queries>>

\* ------------------------------------------- QueueService.processIntent
\* Where the catch of the retry loop goes: back off and try again, or leave
\* the loop once MAX_RETRY_ATTEMPTS attempts were made.
InnerCatchOneMore(attempts) ==
  IF attempts <= MAX_RETRY_ATTEMPTS THEN "backoff" ELSE "wr_exhausted"

InnerCatch(attempts) ==
  IF attempts < MAX_RETRY_ATTEMPTS THEN "backoff" ELSE "wr_exhausted"

\* executePurchase(intent) is called: the transaction is started
StartAlloc(p, i, a) ==
  [allocs EXCEPT ![<<p, i, a>>] = [NoAlloc EXCEPT !.st = "begin"]]

\* The claim, then the expiry check, then the first attempt is started.
TaskClaim(p, i) ==
  /\ tasks[<<p, i>>].pc = "claim"
  /\ intents' = MarkIntentAsProcessing(intents, i)
  /\ IF ~MarkAffected(intents, i)
     THEN /\ tasks' = [tasks EXCEPT ![<<p, i>>] = NoTask]
          /\ allocs' = allocs
     ELSE IF ShouldExpire(intents[i].request_timestamp, WAITING, now,
                          INTENT_EXPIRY_MINUTES)
     THEN /\ tasks' = [tasks EXCEPT ![<<p, i>>].pc = "wr_expired"]
          /\ allocs' = allocs
     ELSE /\ tasks' = [tasks EXCEPT ![<<p, i>>] = [pc |-> "race", attempts |-> 1]]
          /\ allocs' = StartAlloc(p, i, 1)
  /\ UNCHANGED <<now, events, tickets, reqs, cancels, completedLog, faults,
                 queries>>

\* markIntentAsProcessing raises an error: the outer catch takes over
TaskClaimError(p, i) ==
  /\ tasks[<<p, i>>].pc = "claim"
  /\ faults > 0
  /\ faults' = faults - 1
  /\ tasks' = [tasks EXCEPT ![<<p, i>>].pc = "wr_catch"]
  /\ UNCHANGED <<now, events, tickets, intents, reqs, cancels, allocs,
                 completedLog, queries>>

\* timeoutPromise wins Promise.race: the attempt is given up, the transaction
\* it started goes on
TaskTimeout(p, i) ==
  /\ tasks[<<p, i>>].pc = "race"
  /\ faults > 0
  /\ faults' = faults - 1
  /\ tasks' = [tasks EXCEPT ![<<p, i>>].pc = InnerCatch(tasks[<<p, i>>].attempts)]
  /\ UNCHANGED <<now, events, tickets, intents, reqs, cancels, allocs,
                 completedLog, queries>>

\* the backoff delay is over: next iteration of the retry loop
TaskRetry(p, i) ==
  /\ tasks[<<p, i>>].pc = "backoff"
  /\ tasks' = [tasks EXCEPT ![<<p, i>>] =
                 [pc |-> "race", attempts |-> tasks[<<p, i>>].attempts + 1]]
  /\ allocs' = StartAlloc(p, i, tasks[<<p, i>>].attempts + 1)
  /\ UNCHANGED <<now, events, tickets, intents, reqs, cancels, completedLog,
                 faults, queries>>

\* The status each updateIntentStatus call of processIntent (and of the catch
\* in processEventQueue) writes, by the position of the call.
WritePcs == {"wr_expired", "wr_completed", "wr_failed", "wr_exhausted",
             "wr_catch", "wr_queue"}
\* the writes with the result of a refused purchase taken for a success
WriteStatusOptimistic(pc) ==
  CASE pc = "wr_expired" -> EXPIRED
    [] pc \in {"wr_completed", "wr_failed"} -> COMPLETED
    [] OTHER -> FAILED

WriteStatus(pc) ==
  CASE pc = "wr_expired" -> EXPIRED
    [] pc = "wr_completed" -> COMPLETED
    [] OTHER -> FAILED

\* Where an error raised by that call is caught.
WriteErrorPc(pc, attempts) ==
  CASE pc \in {"wr_completed", "wr_failed"} -> InnerCatch(attempts)
    [] pc \in {"wr_expired", "wr_exhausted"} -> "wr_catch"
    [] pc = "wr_catch" -> "wr_queue"
    [] OTHER -> "idle"

\* updateIntentStatus succeeds and the invocation returns
TaskStatusWrite(p, i) ==
  /\ tasks[<<p, i>>].pc \in WritePcs
  /\ intents' = UpdateIntentStatus(intents, i, WriteStatus(tasks[<<p, i>>].pc))
  /\ completedLog' = IF WriteStatus(tasks[<<p, i>>].pc) = COMPLETED
                     THEN Append(completedLog, i) ELSE completedLog
  /\ tasks' = [tasks EXCEPT ![<<p, i>>] = NoTask]
  /\ UNCHANGED <<now, events, tickets, reqs, cancels, allocs, faults,
                 queries>>

\* updateIntentStatus raises an error
TaskStatusWriteError(p, i) ==
  /\ tasks[<<p, i>>].pc \in WritePcs
  /\ faults > 0
  /\ faults' = faults - 1
  /\ tasks' = [tasks EXCEPT ![<<p, i>>] =
       IF WriteErrorPc(tasks[<<p, i>>].pc, tasks[<<p, i>>].attempts) = "idle"
       THEN NoTask
       ELSE [tasks[<<p, i>>] EXCEPT
               !.pc = WriteErrorPc(tasks[<<p, i>>].pc, tasks[<<p, i>>].attempts)]]
  /\ UNCHANGED <<now, events, tickets, intents, reqs, cancels, allocs,
                 completedLog, queries>>

\* ---------------------------------- allocator: EventRepository.purchaseTickets
\* a read that does not take the row lock
LockFreeAlways(e) == TRUE

\* The row lock of SELECT ... FOR UPDATE is held by the transaction that is
\* between its locking read and its commit or rollback.
LockFree(e) ==
  \A k \in DOMAIN allocs :
    allocs[k].st = "locked" => intents[k[2]].event_id # e

\* The attempt processIntent is awaiting in Promise.race
Awaited(p, i, a) ==
  tasks[<<p, i>>].pc = "race" /\ tasks[<<p, i>>].attempts = a

\* an UPDATE that writes the counter back without subtracting
NewAvailableKept(snap, q) == snap.available_tickets

\* the value written by the UPDATE, computed from the row the locking read
\* returned
NewAvailable(snap, q) == snap.available_tickets - q

\* an UPDATE whose version is raised once more by the version column
NewVersionTwice(snap) == snap.version + 2

\* the version written by the UPDATE
NewVersion(snap) == snap.version + 1

\* an insert loop that stops one row short
TicketsToInsertShort(q) == q - 1

\* number of ticket rows the insert loop writes
TicketsToInsert(q) == q

\* What the transaction does after its locking read: "commit", or the reason
\* it rolls back.
PurchaseOutcome(snap, row, q) ==
  IF snap.available_tickets < q THEN "insufficient"
  ELSE IF row.version # snap.version THEN "conflict"
  ELSE IF ~EventChecks([row EXCEPT !.available_tickets = NewAvailable(snap, q)])
  THEN "error"
  ELSE "commit"

\* connect() or startTransaction() raises: executePurchase rejects
AllocThrow(p, i, a) ==
  /\ allocs[<<p, i, a>>].st = "begin"
  /\ faults > 0
  /\ faults' = faults - 1
  /\ allocs' = [allocs EXCEPT ![<<p, i, a>>] = NoAlloc]
  /\ tasks' = IF Awaited(p, i, a)
              THEN [tasks EXCEPT ![<<p, i>>].pc = InnerCatch(a)]
              ELSE tasks
  /\ UNCHANGED <<now, events, tickets, intents, reqs, cancels, completedLog,
                 queries>>

\* findOne with lock pessimistic_write: waits for the row lock, reads the row
AllocLock(p, i, a) ==
  /\ allocs[<<p, i, a>>].st = "begin"
  /\ LockFree(intents[i].event_id)
  /\ allocs' = [allocs EXCEPT ![<<p, i, a>>] =
       [st |-> "locked",
        available_tickets |-> events[intents[i].event_id].available_tickets,
        version |-> events[intents[i].event_id].version]]
  /\ UNCHANGED <<now, events, tickets, intents, reqs, cancels, tasks,
                 completedLog, faults, queries>>

\* availability check, guarded UPDATE, ticket inserts and commit, or rollback;
\* the result goes to processIntent when it still awaits this attempt
AllocFinish(p, i, a) ==
  LET e == intents[i].event_id
      q == intents[i].requested_quantity
      outcome == PurchaseOutcome(allocs[<<p, i, a>>], events[e], q)
  IN
  /\ allocs[<<p, i, a>>].st = "locked"
  /\ events' = IF outcome = "commit"
               THEN [events EXCEPT
                       ![e].available_tickets = NewAvailable(allocs[<<p, i, a>>], q),
                       ![e].version = NewVersion(allocs[<<p, i, a>>])]
               ELSE events
  /\ tickets' = IF outcome = "commit" /\ TicketsToInsert(q) > 0
                THEN tickets (+) (TicketRow(e, i) :> TicketsToInsert(q))
                ELSE tickets
  /\ allocs' = [allocs EXCEPT ![<<p, i, a>>] = NoAlloc]
  /\ tasks' = IF Awaited(p, i, a)
              THEN [tasks EXCEPT ![<<p, i>>].pc =
                      IF outcome = "commit" THEN "wr_completed" ELSE "wr_failed"]
              ELSE tasks
  /\ UNCHANGED <<now, intents, reqs, cancels, completedLog, faults,
                 queries>>

\* a statement inside the transaction raises: rollback, success = false
AllocDbError(p, i, a) ==
  /\ allocs[<<p, i, a>>].st = "locked"
  /\ faults > 0
  /\ faults' = faults - 1
  /\ allocs' = [allocs EXCEPT ![<<p, i, a>>] = NoAlloc]
  /\ tasks' = IF Awaited(p, i, a)
              THEN [tasks EXCEPT ![<<p, i>>].pc = "wr_failed"]
              ELSE tasks
  /\ UNCHANGED <<now, events, tickets, intents, reqs, cancels, completedLog,
                 queries>>

\* The guarded UPDATE reports that it affected no row: rollback, success =
\* false with 'Ticket availability changed, please try again'.  The row lock
\* keeps the transactions of this program from changing the version between
\* the locking read and the UPDATE, so this result is one that is forced from
\* outside (a simulated version race).
AllocConflict(p, i, a) ==
  /\ allocs[<<p, i, a>>].st = "locked"
  /\ faults > 0
  /\ faults' = faults - 1
  /\ allocs' = [allocs EXCEPT ![<<p, i, a>>] = NoAlloc]
  /\ tasks' = IF Awaited(p, i, a)
              THEN [tasks EXCEPT ![<<p, i>>].pc = "wr_failed"]
              ELSE tasks
  /\ UNCHANGED <<now, events, tickets, intents, reqs, cancels, completedLog,
                 queries>>

\* ------------------------------------------------ processor crash, restart
\* The process of processor p dies and is started again.  Its processIntent
\* invocations are gone, the transactions it had open are rolled back by the
\* database, committed ones stay.  onModuleInit -> startQueueProcessor sets
\* isProcessorRunning and touches no intent.
Crash(p) ==
  /\ \/ \E k \in DOMAIN tasks : k[1] = p /\ tasks[k].pc # "idle"
     \/ \E k \in DOMAIN allocs : k[1] = p /\ allocs[k].st # "none"
  /\ tasks' = [k \in DOMAIN tasks |-> IF k[1] = p THEN NoTask ELSE tasks[k]]
  /\ allocs' = [k \in DOMAIN allocs |-> IF k[1] = p THEN NoAlloc ELSE allocs[k]]
  /\ UNCHANGED <<now, events, tickets, intents, reqs, cancels, completedLog,
                 faults, queries>>

\* ------------------------------------------------------- specifications
\* Session ids are interchangeable: a new buyer takes the smallest unused id.
SessionsSeen ==
  {intents[i].user_session_id : i \in AllIntents}
    \cup {reqs[r].session : r \in {x \in DOMAIN reqs : reqs[x].pc # "free"}}
Buyers == {s \in Sessions : \A t \in 1..(s - 1) : t \in SessionsSeen}

\* A cancellation response is on its way to the caller; it is handed over
\* before anything else happens.
Responding == cancels.pc = "done" \/ queries.pc = "done"

\* intake requests arriving on the slots R
IntakeSteps(R) ==
  \/ \E r \in R, s \in Buyers, e \in Events, q \in Quantities :
       ~Responding /\ IntakeStart(r, s, e, q)
  \/ \E r \in R : ~Responding /\ IntakeLookup(r)
  \/ \E r \in R : ~Responding /\ IntakeCreate(r)

\* requests that name an event id no event has
MissingEvent == NumEvents + 1
IntakeMissingSteps(R) ==
  \E r \in R, s \in Buyers, q \in Quantities :
    ~Responding /\ IntakeStart(r, s, MissingEvent, q)

CancelSteps ==
  \/ \E i \in AllIntents, s \in Sessions : CancelRead(i, s)
  \/ \E i \in AllIntents : CancelWrite(i)
  \/ CancelReturn

\* cancellation calls that pass the checks: the owner cancels an intent that
\* is active when read
OwnerCancelSteps ==
  \/ \E i \in AllIntents :
       /\ CancelResult(intents[i], intents[i].user_session_id) = "none"
       /\ CancelRead(i, intents[i].user_session_id)
  \/ \E i \in AllIntents : CancelWrite(i)
  \/ CancelReturn

ClockStep == \E d \in ClockSteps : ~Responding /\ Advance(d)

SweepStep == ~Responding /\ Sweep

\* the processor and the allocator when no call times out or raises
ProcessSteps ==
  \/ \E p \in Procs, e \in Events : ~Responding /\ Tick(p, e)
  \/ \E p \in Procs, i \in AllIntents : ~Responding /\ TaskClaim(p, i)
  \/ \E p \in Procs, i \in AllIntents : ~Responding /\ TaskStatusWrite(p, i)
  \/ \E p \in Procs, i \in AllIntents, a \in Attempts :
       ~Responding /\ AllocLock(p, i, a)
  \/ \E p \in Procs, i \in AllIntents, a \in Attempts :
       ~Responding /\ AllocFinish(p, i, a)

\* timeouts, database errors and the retries that follow them
FaultSteps ==
  \/ \E p \in Procs, i \in AllIntents : ~Responding /\ TaskClaimError(p, i)
  \/ \E p \in Procs, i \in AllIntents : ~Responding /\ TaskTimeout(p, i)
  \/ \E p \in Procs, i \in AllIntents : ~Responding /\ TaskRetry(p, i)
  \/ \E p \in Procs, i \in AllIntents :
       ~Responding /\ TaskStatusWriteError(p, i)
  \/ \E p \in Procs, i \in AllIntents, a \in Attempts :
       ~Responding /\ AllocThrow(p, i, a)
  \/ \E p \in Procs, i \in AllIntents, a \in Attempts :
       ~Responding /\ AllocDbError(p, i, a)

\* The whole system.  Cancellation calls that are refused change nothing and
\* are left to SpecQueue.
Next ==
  \/ ClockStep
  \/ IntakeSteps(ReqSlots)
  \/ OwnerCancelSteps
  \/ SweepStep
  \/ ProcessSteps
  \/ FaultSteps

Spec == Init /\ [][Next]_vars

\* The system when no call times out and the database raises no error.
NextQueue ==
  \/ ClockStep
  \/ IntakeSteps(ReqSlots)
  \/ CancelSteps
  \/ SweepStep
  \/ ProcessSteps

SpecQueue == Init /\ [][NextQueue]_vars

\* Concurrent intake: one more request slot, the processor running, the clock
\* standing still.
NextIntake ==
  \/ IntakeSteps(IntakeSlots)
  \/ ProcessSteps

SpecIntake == Init /\ [][NextIntake]_vars

\* One request at a time, the processor running, the clock standing still.
NextResubmit ==
  \/ IntakeSteps(ReqSlots)
  \/ ProcessSteps

SpecResubmit == Init /\ [][NextResubmit]_vars

\* Intake over the life of an event: requests for the event and for an id
\* that no event has, the processor selling the tickets, the clock passing
\* the date of the event.
NextReject ==
  \/ ClockStep
  \/ IntakeSteps(ReqSlots)
  \/ IntakeMissingSteps(ReqSlots)
  \/ ProcessSteps

SpecReject == Init /\ [][NextReject]_vars

\* Quantities at the limits of the validation, requested for an event that
\* has as many tickets as one request may ask for.
EdgeQuantities ==
  {MinQuantity - 1, MinQuantity, MaxDtoQuantity, MaxDtoQuantity + 1}

InitEdge ==
  /\ now = 0
  /\ events = [e \in Events |-> NewEvent(EventDate, MaxDtoQuantity)]
  /\ tickets = EmptyBag
  /\ intents = << >>
  /\ reqs = [r \in IntakeSlots |-> NoReq]
  /\ cancels = NoCancel
  /\ tasks = [k \in Procs \X TaskIntentIds |-> NoTask]
  /\ allocs = [k \in Procs \X TaskIntentIds \X Attempts |-> NoAlloc]
  /\ completedLog = << >>
  /\ faults = MaxFaults
  /\ queries = NoQuery

IntakeEdgeSteps(R) ==
  \/ \E r \in R, s \in Buyers, e \in Events, q \in EdgeQuantities :
       IntakeStart(r, s, e, q)
  \/ \E r \in R, s \in Buyers, e \in Events, q \in EdgeQuantities :
       IntakeInvalid(r, s, e, q)
  \/ \E r \in R : IntakeLookup(r)
  \/ \E r \in R : IntakeCreate(r)

NextEdge ==
  \/ IntakeEdgeSteps(ReqSlots)
  \/ ProcessSteps

SpecEdge == InitEdge /\ [][NextEdge]_vars

\* Status queries while buyers submit concurrently, the clock moves on by
\* milliseconds and the processor runs.
MillisecondStep == ~Responding /\ Advance(1)

PositionSteps ==
  \/ \E i \in AllIntents : ~Responding /\ PositionStart(i)
  \/ PositionFind
  \/ PositionCount
  \/ QueryReturn

NextPosition ==
  \/ MillisecondStep
  \/ IntakeSteps(IntakeSlots)
  \/ ProcessSteps
  \/ PositionSteps

SpecPosition == Init /\ [][NextPosition]_vars

\* Statistics calls while buyers submit and the processor runs.
StatsSteps ==
  \/ \E e \in Events : ~Responding /\ StatsStart(e)
  \/ \E st \in Statuses : StatsCount(st)
  \/ QueryReturn

NextStats ==
  \/ IntakeSteps(ReqSlots)
  \/ ProcessSteps
  \/ StatsSteps

SpecStats == Init /\ [][NextStats]_vars

\* Several sources of processIntent invocations for one intent: a cron tick
\* that overlaps the one before, the admin call forceProcessEventQueue, a
\* second processor instance.  Each is a worker that fetches a batch and
\* starts invocations; forceProcessEventQueue awaits its invocations one by
\* one, which is one of the orders the concurrent invocations can take.
Workers == 1..(NumProcs + 1)

InitWorkers ==
  /\ now = 0
  /\ events = [e \in Events |-> NewEvent(EventDate, TotalTickets)]
  /\ tickets = EmptyBag
  /\ intents = << >>
  /\ reqs = [r \in IntakeSlots |-> NoReq]
  /\ cancels = NoCancel
  /\ tasks = [k \in Workers \X TaskIntentIds |-> NoTask]
  /\ allocs = [k \in Workers \X TaskIntentIds \X Attempts |-> NoAlloc]
  /\ completedLog = << >>
  /\ faults = MaxFaults
  /\ queries = NoQuery

WorkerSteps ==
  \/ \E p \in Workers, e \in Events : Tick(p, e)
  \/ \E p \in Workers, i \in AllIntents : TaskClaim(p, i)
  \/ \E p \in Workers, i \in AllIntents : TaskStatusWrite(p, i)
  \/ \E p \in Workers, i \in AllIntents, a \in Attempts : AllocLock(p, i, a)
  \/ \E p \in Workers, i \in AllIntents, a \in Attempts : AllocFinish(p, i, a)

NextWorkers ==
  \/ IntakeSteps(ReqSlots)
  \/ WorkerSteps

SpecWorkers == InitWorkers /\ [][NextWorkers]_vars

\* The processor when the guarded UPDATE of a transaction can come back with
\* no row affected.
ConflictSteps ==
  \E p \in Procs, i \in AllIntents, a \in Attempts :
    ~Responding /\ AllocConflict(p, i, a)

NextConflict ==
  \/ IntakeSteps(ReqSlots)
  \/ ProcessSteps
  \/ ConflictSteps

SpecConflict == Init /\ [][NextConflict]_vars

\* Expiry: buyers submit, the clock passes the expiry age or moves on by
\* exactly that age, the sweeper and the processor run.
ExpiryAgeStep == ~Responding /\ Advance(ExpiryMs)

NextSweep ==
  \/ ClockStep
  \/ ExpiryAgeStep
  \/ IntakeSteps(ReqSlots)
  \/ SweepStep
  \/ ProcessSteps

SpecSweep == Init /\ [][NextSweep]_vars

\* The oversubscribe scenario: an event of three tickets, and the intents
\* A (2 tickets), B (2 tickets), C (1 ticket) of three buyers, created one
\* millisecond apart, all waiting; then the processor runs.
InitOversub ==
  /\ now = 3
  /\ events = [e \in Events |-> NewEvent(EventDate, 3)]
  /\ tickets = EmptyBag
  /\ intents = << NewIntent(1, 1, 2, 0), NewIntent(1, 2, 2, 1),
                  NewIntent(1, 3, 1, 2) >>
  /\ reqs = [r \in IntakeSlots |-> NoReq]
  /\ cancels = NoCancel
  /\ tasks = [k \in Procs \X TaskIntentIds |-> NoTask]
  /\ allocs = [k \in Procs \X TaskIntentIds \X Attempts |-> NoAlloc]
  /\ completedLog = << >>
  /\ faults = MaxFaults
  /\ queries = NoQuery

SpecOversub == InitOversub /\ [][ProcessSteps]_vars

\* The processor keeps running: the cron tick fires, and every await of an
\* invocation or of a transaction that can return does return.  An invocation
\* is at one await at a time, and so is a transaction.  I is the set of
\* intent ids.
TaskStep(p, i) == TaskClaim(p, i) \/ TaskRetry(p, i) \/ TaskStatusWrite(p, i)
AllocStep(p, i, a) == AllocLock(p, i, a) \/ AllocFinish(p, i, a)
ProcessorFairness(I) ==
  /\ \A p \in Procs, e \in Events : WF_vars(Tick(p, e))
  /\ \A p \in Procs, i \in I : WF_vars(TaskStep(p, i))
  /\ \A p \in Procs, i \in I, a \in Attempts : WF_vars(AllocStep(p, i, a))

\* A database outage: one waiting intent, and OutageFaults calls in a row may
\* time out or raise.
InitOutage ==
  /\ now = 0
  /\ events = [e \in Events |-> NewEvent(EventDate, TotalTickets)]
  /\ tickets = EmptyBag
  /\ intents = << NewIntent(1, 1, 1, 0) >>
  /\ reqs = [r \in IntakeSlots |-> NoReq]
  /\ cancels = NoCancel
  /\ tasks = [k \in Procs \X TaskIntentIds |-> NoTask]
  /\ allocs = [k \in Procs \X TaskIntentIds \X Attempts |-> NoAlloc]
  /\ completedLog = << >>
  /\ faults = OutageFaults
  /\ queries = NoQuery

NextOutage ==
  \/ ClockStep
  \/ ProcessSteps
  \/ FaultSteps

SpecOutage ==
  InitOutage /\ [][NextOutage]_vars /\ ProcessorFairness(TaskIntentIds)

\* Processor crashes and restarts, no timeouts and no database errors.
CrashStep == \E p \in Procs : ~Responding /\ Crash(p)

NextCrash ==
  \/ ClockStep
  \/ IntakeSteps(ReqSlots)
  \/ ProcessSteps
  \/ CrashStep

SpecCrash == Init /\ [][NextCrash]_vars /\ ProcessorFairness(TaskIntentIds)

\* A queue longer than one batch: MAX_CONCURRENT_PROCESSING + 1 intents of
\* one ticket each, created one millisecond apart, all waiting.
LongQueue == 1..(MAX_CONCURRENT_PROCESSING + 1)

InitLongQueue ==
  /\ now = MAX_CONCURRENT_PROCESSING + 1
  /\ events = [e \in Events |-> NewEvent(EventDate, TotalTickets)]
  /\ tickets = EmptyBag
  /\ intents = [k \in LongQueue |-> NewIntent(1, k, 1, k - 1)]
  /\ reqs = [r \in IntakeSlots |-> NoReq]
  /\ cancels = NoCancel
  /\ tasks = [k \in Procs \X LongQueue |-> NoTask]
  /\ allocs = [k \in Procs \X LongQueue \X Attempts |-> NoAlloc]
  /\ completedLog = << >>
  /\ faults = MaxFaults
  /\ queries = NoQuery

SpecLongQueue ==
  InitLongQueue /\ [][ProcessSteps]_vars /\ ProcessorFairness(LongQueue)

\* ---------------------------------------------------------------- claims
\* C1: in every reachable state and for every event, the number of ticket
\* rows of the event plus its available_tickets equals its total_tickets.
TicketConservation ==
  \A e \in Events :
    TicketsOfEvent(e) + events[e].available_tickets = events[e].total_tickets

\* two intents hold tickets of the same event, and one attempt was given up
TicketConservationWitness ==
  \E i, j \in AllIntents :
    /\ i # j
    /\ intents[i].event_id = intents[j].event_id
    /\ TicketsOfPurchase(i) > 0
    /\ TicketsOfPurchase(j) > 0
    /\ faults < MaxFaults

\* C2: for every event available_tickets stays within 0..total_tickets and
\* the allocator calls together never issue more tickets than the event has.
NoOversell ==
  \A e \in Events :
    /\ events[e].available_tickets >= 0
    /\ events[e].available_tickets <= events[e].total_tickets
    /\ TicketsOfEvent(e) <= events[e].total_tickets

\* two transactions on one event, one holding the row lock and one waiting
\* for it, that together ask for more than is left
NoOversellWitness ==
  \E k1, k2 \in DOMAIN allocs :
    /\ allocs[k1].st = "locked"
    /\ allocs[k2].st = "begin"
    /\ intents[k1[2]].event_id = intents[k2[2]].event_id
    /\ intents[k1[2]].requested_quantity + intents[k2[2]].requested_quantity
         > events[intents[k1[2]].event_id].available_tickets

\* C3: whenever an intent is COMPLETED, exactly requested_quantity ticket
\* rows carry its id as purchase_id, all of them of the intent's event.
CompletedHasItsTickets ==
  \A i \in AllIntents :
    intents[i].status = COMPLETED =>
      /\ TicketsOfPurchase(i) = intents[i].requested_quantity
      /\ \A t \in BagToSet(tickets) :
           t.purchase_id = i => t.event_id = intents[i].event_id

\* C4: no intent is COMPLETED while an intent of the same event with a
\* strictly smaller arrival ordinal is still WAITING or PROCESSING.
NoOvertaking ==
  \A i, j \in AllIntents :
    ( /\ intents[i].event_id = intents[j].event_id
      /\ intents[j].request_timestamp < intents[i].request_timestamp
      /\ intents[i].status = COMPLETED )
    => IsCompleted(intents[j].status)

\* C5: per event, the order of the COMPLETED writes agrees with the arrival
\* order of the intents written.
CompletionOrderFollowsArrival ==
  \A m, n \in 1..Len(completedLog) :
    ( /\ m < n
      /\ intents[completedLog[m]].event_id = intents[completedLog[n]].event_id )
    => intents[completedLog[m]].request_timestamp
         <= intents[completedLog[n]].request_timestamp

\* C6: in the oversubscribe scenario A never fails, B never succeeds, and
\* once every intent is terminal and the processor is idle the outcome is
\* A COMPLETED with 2 tickets, B FAILED, C COMPLETED with 1 ticket,
\* available_tickets = 0 and 3 ticket rows.
Quiescent ==
  /\ \A k \in DOMAIN tasks : tasks[k].pc = "idle"
  /\ \A k \in DOMAIN allocs : allocs[k].st = "none"
OversubscribeOutcome ==
  /\ intents[1].status # FAILED
  /\ intents[2].status # COMPLETED
  /\ ( Quiescent /\ \A i \in AllIntents : IsCompleted(intents[i].status) )
     => /\ intents[1].status = COMPLETED /\ TicketsOfPurchase(1) = 2
        /\ intents[2].status = FAILED /\ TicketsOfPurchase(2) = 0
        /\ intents[3].status = COMPLETED /\ TicketsOfPurchase(3) = 1
        /\ events[1].available_tickets = 0
        /\ TicketsOfEvent(1) = 3

\* C7: at most one intent is WAITING or PROCESSING per (session, event).
OneActiveIntentPerPair ==
  \A s \in Sessions, e \in Events : Cardinality(ActiveIntentsOf(s, e)) <= 1

\* C8: a submission answered while an intent of its (session, event) is
\* non-terminal is answered with success and that intent's id, and creates
\* no intent row.
IntakeIdempotent ==
  [][ \A r \in DOMAIN reqs :
        ( /\ reqs'[r] # reqs[r]
          /\ reqs'[r].pc = "done"
          /\ ActiveIntentsOf(reqs'[r].session, reqs'[r].event) # {} )
        => /\ reqs'[r].success
           /\ reqs'[r].intent_id \in
                ActiveIntentsOf(reqs'[r].session, reqs'[r].event)
           /\ intents' = intents ]_vars

\* C9: every status change is WAITING->PROCESSING, WAITING->EXPIRED,
\* PROCESSING->COMPLETED, PROCESSING->FAILED or PROCESSING->EXPIRED; the
\* status of a COMPLETED, FAILED or EXPIRED intent never changes.
AllowedTransitions ==
  { <<WAITING, PROCESSING>>, <<WAITING, EXPIRED>>, <<PROCESSING, COMPLETED>>,
    <<PROCESSING, FAILED>>, <<PROCESSING, EXPIRED>> }
StatusTransitions ==
  [][ \A i \in AllIntents :
        intents'[i].status # intents[i].status
        => <<intents[i].status, intents'[i].status>> \in AllowedTransitions ]_vars

\* C10: over the life of an intent the allocator commits at most once for it
\* (every commit inserts requested_quantity rows under the intent's id).
AllocCommits(i) == TicketsOfPurchase(i) \div intents[i].requested_quantity
AllocatorCommitsOnce ==
  \A i \in AllIntents : AllocCommits(i) <= 1

\* A cancellation call is answered in this step.
CancelCompletes == cancels.pc # "done" /\ cancels'.pc = "done"

\* C11: an intent whose cancellation was answered with success is EXPIRED
\* from then on and no ticket row carries its id.
CancelledStaysCancelled ==
  \A i \in cancels.cancelled :
    intents[i].status = EXPIRED /\ TicketsOfPurchase(i) = 0

\* C12: a cancellation by the owner that is answered while the intent is
\* PROCESSING is answered not-cancellable and leaves the intents table as it
\* was.
CancelOnlyFromWaiting ==
  [][ ( /\ CancelCompletes
        /\ cancels'.session = intents[cancels'.intent].user_session_id
        /\ intents[cancels'.intent].status = PROCESSING )
      => /\ cancels'.result = "not_cancellable"
         /\ intents' = intents ]_vars

\* C13: a cancellation call whose session is not the intent's session is
\* rejected, and the intents, the events and the tickets are unchanged by it.
ForeignCancelRejected ==
  [][ ( /\ CancelCompletes
        /\ cancels'.session # intents[cancels'.intent].user_session_id )
      => /\ cancels'.result = "forbidden"
         /\ intents' = intents
         /\ events' = events
         /\ tickets' = tickets ]_vars

\* another session's call on an intent that is still active was rejected
ForeignCancelWitness ==
  /\ cancels.pc = "done"
  /\ cancels.result = "forbidden"
  /\ IsActive(intents[cancels.intent].status)

\* C14: the owner's cancellation answered while the intent is WAITING succeeds
\* and sets EXPIRED; the owner's next cancellation of an intent already
\* cancelled with success is answered not-cancellable and changes no intent.
SecondCancelRefused ==
  [][ ( /\ CancelCompletes
        /\ cancels'.session = intents[cancels'.intent].user_session_id )
      => /\ intents[cancels'.intent].status = WAITING
              => /\ cancels'.result = "ok"
                 /\ intents'[cancels'.intent].status = EXPIRED
         /\ cancels'.intent \in cancels.cancelled
              => /\ cancels'.result = "not_cancellable"
                 /\ intents' = intents ]_vars

\* the second call on an intent cancelled with success has been answered
SecondCancelWitness ==
  /\ cancels.pc = "done"
  /\ cancels.result = "not_cancellable"
  /\ cancels.intent \in cancels.cancelled

\* C15: under a processor that keeps running, an intent that is PROCESSING
\* eventually is COMPLETED, FAILED or EXPIRED, whatever times out or raises.
ProcessingEnds ==
  \A i \in TaskIntentIds :
    (i \in AllIntents /\ intents[i].status = PROCESSING)
      ~> (i \in AllIntents /\ IsCompleted(intents[i].status))

\* C16: an intent that is PROCESSING when its processor crashes is FAILED
\* some time after the restart.
CrashedIntentFails ==
  \A i \in TaskIntentIds :
    ( /\ i \in AllIntents
      /\ intents[i].status = PROCESSING
      /\ \A p \in Procs : tasks[<<p, i>>].pc = "idle" )
      ~> (i \in AllIntents /\ intents[i].status = FAILED)

Arrives(r) == reqs[r].pc \in {"free", "done"} /\ reqs'[r] # reqs[r]

\* A request is answered with a failure in this step.
Rejected(r) ==
  reqs'[r] # reqs[r] /\ reqs'[r].pc = "done" /\ ~reqs'[r].success

\* C18: a request that arrives when the date of its event is in the past or
\* the event has no ticket left is rejected as unavailable, a request for an
\* event that does not exist is rejected as not found, and a step that
\* rejects a request leaves the intents, the events and the tickets unchanged.
IntakeRejects ==
  [][ \A r \in DOMAIN reqs :
        /\ ( /\ Arrives(r)
             /\ reqs'[r].event \in DOMAIN events
             /\ \/ events[reqs'[r].event].date < now
                \/ events[reqs'[r].event].available_tickets = 0 )
           => Rejected(r) /\ reqs'[r].error = "unavailable"
        /\ (Arrives(r) /\ reqs'[r].event \notin DOMAIN events)
           => Rejected(r) /\ reqs'[r].error = "not_found"
        /\ Rejected(r)
           => intents' = intents /\ events' = events /\ tickets' = tickets
    ]_vars

\* a request was rejected while the event lay ahead and one intent held all
\* its tickets
IntakeRejectsWitness ==
  \E r \in DOMAIN reqs, i \in AllIntents :
    /\ reqs[r].pc = "done"
    /\ reqs[r].error = "unavailable"
    /\ now < events[reqs[r].event].date
    /\ intents[i].event_id = reqs[r].event
    /\ TicketsOfPurchase(i) = events[reqs[r].event].total_tickets
    /\ intents[i].requested_quantity = events[reqs[r].event].total_tickets

\* C19: a request that arrives for an event that lies ahead and has at least
\* one ticket left, from a session with no active intent for the event, is
\* not rejected, whatever quantity it asks for.
IntakeQueuesValidRequest ==
  [][ \A r \in DOMAIN reqs :
        ( /\ Arrives(r)
          /\ reqs'[r].event \in DOMAIN events
          /\ events[reqs'[r].event].date > now
          /\ events[reqs'[r].event].available_tickets >= 1
          /\ ActiveIntentsOf(reqs'[r].session, reqs'[r].event) = {} )
        => ~Rejected(r) ]_vars

\* C20: a request of quantity 1 or 10 is not refused as invalid and, when the
\* event has that many tickets, goes on to the queue; a request of quantity 0
\* or 11 is refused as invalid and changes no table; every intent stored has
\* a quantity within 1..10.
QuantityLimits ==
  /\ [](\A i \in AllIntents :
          /\ intents[i].requested_quantity >= MinQuantity
          /\ intents[i].requested_quantity <= MaxDtoQuantity)
  /\ [][ \A r \in DOMAIN reqs, s \in Sessions, e \in Events,
            q \in EdgeQuantities :
          (IntakeStart(r, s, e, q) \/ IntakeInvalid(r, s, e, q))
          => IF q >= MinQuantity /\ q <= MaxDtoQuantity
             THEN /\ reqs'[r].error # "invalid"
                  /\ CheckEventAvailability(e, q) => reqs'[r].pc = "lookup"
             ELSE /\ reqs'[r].pc = "done"
                  /\ ~reqs'[r].success
                  /\ reqs'[r].error = "invalid"
                  /\ intents' = intents
                  /\ events' = events
                  /\ tickets' = tickets ]_vars

\* an intent of the largest quantity is stored, and a request of one ticket
\* more has been refused
QuantityLimitsWitness ==
  /\ \E i \in AllIntents : intents[i].requested_quantity = MaxDtoQuantity
  /\ \E r \in DOMAIN reqs :
       /\ reqs[r].pc = "done"
       /\ reqs[r].error = "invalid"
       /\ reqs[r].quantity = MaxDtoQuantity + 1

\* C21: intents are numbered in creation order, and of any two intents the
\* one created later has the strictly larger request_timestamp.
ArrivalsStrictlyIncrease ==
  \A i, j \in AllIntents :
    i < j => intents[i].request_timestamp < intents[j].request_timestamp

\* C22: the position a status query reports for an intent that is WAITING or
\* PROCESSING when the count is taken is 1 + the number of active intents of
\* its event with a strictly smaller request_timestamp than its own.
PositionIsOwn ==
  [][ ( /\ queries.pc = "count"
        /\ queries'.pc = "done"
        /\ IsActive(intents[queries.intent].status) )
      => queries'.position = Cardinality(IntentsAhead(queries.intent)) + 1
    ]_vars

\* C23: the five counts a statistics call returns add up to a number of
\* intents the event had at some moment of the call (intents are never
\* deleted, so to a number between the one at its start and the one at its
\* end).
StatsTotal ==
  queries.counts[WAITING] + queries.counts[PROCESSING]
    + queries.counts[COMPLETED] + queries.counts[FAILED]
    + queries.counts[EXPIRED]
StatsAreOneInstant ==
  (queries.pc = "done" /\ queries.kind = "stats")
  => /\ StatsTotal >= queries.first
     /\ StatsTotal <= Cardinality(IntentsOf(queries.event))

\* C24: when the locking read of an attempt finds fewer tickets than the
\* intent asks for, the transaction ends with the events and the tickets as
\* they were, it is the first attempt, and the next step of the invocation
\* writes PROCESSING -> FAILED and returns; a FAILED intent has no
\* transaction running.
InsufficientFails ==
  /\ [](\A k \in DOMAIN allocs :
          (k[2] \in AllIntents /\ intents[k[2]].status = FAILED)
          => allocs[k].st = "none")
  /\ [][ \A k \in DOMAIN allocs :
          ( /\ allocs[k].st = "locked"
            /\ allocs'[k].st = "none"
            /\ allocs[k].available_tickets
                 < intents[k[2]].requested_quantity )
          => /\ events' = events
             /\ tickets' = tickets
             /\ k[3] = 1
             /\ tasks'[<<k[1], k[2]>>].pc = "wr_failed" ]_vars
  /\ [][ \A k \in DOMAIN tasks :
          (tasks[k].pc = "wr_failed" /\ tasks'[k] # tasks[k])
          => /\ intents[k[2]].status = PROCESSING
             /\ intents'[k[2]].status = FAILED
             /\ tasks'[k] = NoTask
             /\ events' = events
             /\ tickets' = tickets ]_vars

\* an intent that asked for more than was left is FAILED, the tickets that
\* were left are still there
InsufficientFailsWitness ==
  \E i \in AllIntents :
    /\ intents[i].status = FAILED
    /\ TicketsOfPurchase(i) = 0
    /\ events[intents[i].event_id].available_tickets > 0
    /\ events[intents[i].event_id].available_tickets
         < intents[i].requested_quantity

\* C25: of all the invocations started for an intent at most one is past the
\* claim; an invocation gets past the claim only in a step that takes the
\* intent from WAITING to PROCESSING, and no intent becomes WAITING again; a
\* transaction runs only for the invocation that awaits it.
PastClaim(i) ==
  {k \in DOMAIN tasks : k[2] = i /\ tasks[k].pc \notin {"idle", "claim"}}
ExclusiveClaim ==
  /\ [](\A i \in AllIntents : Cardinality(PastClaim(i)) <= 1)
  /\ [](\A k \in DOMAIN allocs :
          allocs[k].st # "none" => <<k[1], k[2]>> \in PastClaim(k[2]))
  /\ [][ \A k \in DOMAIN tasks :
          (tasks[k].pc = "claim" /\ tasks'[k].pc \notin {"idle", "claim"})
          => /\ intents[k[2]].status = WAITING
             /\ intents'[k[2]].status = PROCESSING ]_vars
  /\ [][ \A i \in AllIntents :
          intents'[i].status = WAITING => intents[i].status = WAITING ]_vars

\* two invocations were started for one intent: one has claimed it and awaits
\* its transaction, the other has its claim still to run
ExclusiveClaimWitness ==
  \E i \in AllIntents, k, l \in DOMAIN tasks :
    /\ k[2] = i /\ l[2] = i /\ k # l
    /\ tasks[k].pc = "race"
    /\ tasks[l].pc = "claim"

\* C26: when the guarded UPDATE of an attempt before the last affects no row
\* and the invocation awaits that attempt, the invocation backs off to call
\* the allocator again; it does not go on to write FAILED.
ConflictIsRetried ==
  [][ \A k \in DOMAIN allocs :
        ( /\ AllocConflict(k[1], k[2], k[3])
          /\ Awaited(k[1], k[2], k[3])
          /\ k[3] < MAX_RETRY_ATTEMPTS )
        => tasks'[<<k[1], k[2]>>].pc = "backoff" ]_vars

\* C27: a transaction of the allocator that ends when the date of the event
\* is in the past leaves the events and the tickets as they were.
AllocatorRefusesPastEvent ==
  [][ \A k \in DOMAIN allocs :
        ( /\ allocs[k].st = "locked"
          /\ allocs'[k].st = "none"
          /\ events[intents[k[2]].event_id].date < now )
        => events' = events /\ tickets' = tickets ]_vars

\* age of an intent in milliseconds
AgeMs(i) == now - intents[i].request_timestamp \div 1000

\* C28: an invocation that gets past the claim of an intent older than 30
\* minutes starts no transaction and goes on to write PROCESSING -> EXPIRED;
\* one that gets past the claim of an intent of 30 minutes or less starts the
\* first transaction; an EXPIRED intent has no transaction and no ticket.
ExpiredNeverAllocated ==
  /\ [](\A i \in AllIntents :
          intents[i].status = EXPIRED
          => /\ TicketsOfPurchase(i) = 0
             /\ \A k \in DOMAIN allocs : k[2] = i => allocs[k].st = "none")
  /\ [][ \A k \in DOMAIN tasks :
          (tasks[k].pc = "claim" /\ tasks'[k].pc \notin {"idle", "claim"})
          => IF AgeMs(k[2]) > ExpiryMs
             THEN tasks'[k].pc = "wr_expired" /\ allocs' = allocs
             ELSE /\ tasks'[k].pc = "race"
                  /\ allocs'[<<k[1], k[2], 1>>].st = "begin" ]_vars
  /\ [][ \A k \in DOMAIN tasks :
          (tasks[k].pc = "wr_expired" /\ tasks'[k] # tasks[k])
          => /\ intents[k[2]].status = PROCESSING
             /\ intents'[k[2]].status = EXPIRED
             /\ allocs' = allocs ]_vars

\* an invocation has claimed an intent older than 30 minutes and is about to
\* write EXPIRED; another intent went on to the allocator and is COMPLETED
ExpiredNeverAllocatedWitness ==
  /\ \E k \in DOMAIN tasks :
       tasks[k].pc = "wr_expired" /\ intents[k[2]].status = PROCESSING
  /\ \E i \in AllIntents : intents[i].status = COMPLETED

\* C29: a run of the sweeper sets to EXPIRED exactly the intents that are
\* WAITING and older than 30 minutes and changes nothing else; an intent that
\* is EXPIRED stays EXPIRED and no invocation gets past its claim.
SweeperStep ==
  intents' # intents /\ reqs' = reqs /\ cancels' = cancels /\ tasks' = tasks
SweeperExpiresOldWaiting ==
  /\ [][ SweeperStep
         => /\ \A i \in AllIntents :
                 intents'[i] =
                   IF intents[i].status = WAITING /\ AgeMs(i) > ExpiryMs
                   THEN [intents[i] EXCEPT !.status = EXPIRED]
                   ELSE intents[i]
            /\ Len(intents') = Len(intents)
            /\ events' = events
            /\ tickets' = tickets ]_vars
  /\ [][ \A i \in AllIntents :
          intents[i].status = EXPIRED
          => /\ intents'[i].status = EXPIRED
             /\ \A k \in DOMAIN tasks :
                  (k[2] = i /\ tasks[k].pc = "claim")
                  => tasks'[k].pc \in {"idle", "claim"} ]_vars

\* the sweeper has expired one intent and left a younger one waiting, and an
\* invocation started for the expired one before the sweep is still to run
\* its claim
SweeperExpiresOldWaitingWitness ==
  \E i, j \in AllIntents, k \in DOMAIN tasks :
    /\ intents[i].status = EXPIRED
    /\ k[2] = i
    /\ tasks[k].pc = "claim"
    /\ intents[j].status = WAITING
    /\ AgeMs(i) > ExpiryMs
    /\ AgeMs(j) <= ExpiryMs

\* C30: an invocation makes at most MAX_RETRY_ATTEMPTS attempts and comes to
\* an end; when the last attempt is given up for an error or a timeout the
\* invocation leaves the retry loop; the claim of the invocation leaves the
\* intent PROCESSING, it stays PROCESSING through the retry loop unless the
\* status write of another invocation on the same intent lands, and the write
\* that follows the loop takes the intent to FAILED, which it reaches.
BoundedAttempts ==
  /\ [](\A k \in DOMAIN tasks : tasks[k].attempts <= MAX_RETRY_ATTEMPTS)
  /\ [][ \A k \in DOMAIN tasks :
          ( /\ tasks[k].pc = "race"
            /\ tasks[k].attempts = MAX_RETRY_ATTEMPTS
            /\ tasks'[k].pc \notin {"race", "wr_completed", "wr_failed"} )
          => tasks'[k].pc = "wr_exhausted" ]_vars
  /\ [][ \A k \in DOMAIN tasks :
          (tasks[k].pc = "claim" /\ tasks'[k].pc = "race")
          => intents'[k[2]].status = PROCESSING ]_vars
  /\ [][ \A k \in DOMAIN tasks :
          ( /\ tasks[k].pc \in {"race", "backoff", "wr_exhausted"}
            /\ intents[k[2]].status = PROCESSING
            /\ intents'[k[2]].status # PROCESSING )
          => \/ /\ tasks[k].pc = "wr_exhausted"
                /\ tasks'[k] = NoTask
             \/ \E q \in DOMAIN tasks :
                  /\ q # k
                  /\ q[2] = k[2]
                  /\ tasks[q].pc \in WritePcs
                  /\ tasks'[q] = NoTask ]_vars
  /\ [][ \A k \in DOMAIN tasks :
          (tasks[k].pc = "wr_exhausted" /\ tasks'[k] = NoTask)
          => intents'[k[2]].status = FAILED ]_vars
  /\ \A k \in Procs \X TaskIntentIds :
       /\ (tasks[k].pc # "idle") ~> (tasks[k].pc = "idle")
       /\ (tasks[k].pc = "wr_exhausted")
            ~> (k[2] \in AllIntents /\ intents[k[2]].status = FAILED)

\* the third attempt of an invocation has been given up
BoundedAttemptsWitness ==
  \E k \in DOMAIN tasks :
    /\ tasks[k].pc = "wr_exhausted"
    /\ tasks[k].attempts = MAX_RETRY_ATTEMPTS
    /\ intents[k[2]].status = PROCESSING

\* ------------------------------------------------ the allocator under faults
\* The processor with every way a purchaseTickets call can fail: too few
\* tickets, a statement that raises, a guarded UPDATE that affects no row, a
\* connection that cannot be opened, and timeouts of the caller.
NextAllocFaults ==
  \/ IntakeSteps(ReqSlots)
  \/ ProcessSteps
  \/ FaultSteps
  \/ ConflictSteps

SpecAllocFaults == Init /\ [][NextAllocFaults]_vars

\* the transaction k ends in this step
AllocEnds(k) == allocs[k].st # "none" /\ allocs'[k].st = "none"

\* the transaction k ends in this step with a commit
AllocCommitsNow(k) ==
  /\ allocs[k].st = "locked"
  /\ AllocFinish(k[1], k[2], k[3])
  /\ PurchaseOutcome(allocs[k], events[intents[k[2]].event_id],
                     intents[k[2]].requested_quantity) = "commit"

\* C31: a purchaseTickets call that ends without a commit leaves events and
\* tickets as they were, and a step changes the inventory of an event only
\* as a whole: available_tickets goes down by the quantity of the intent,
\* version goes up by one and exactly that many ticket rows of the intent are
\* added.
FailedAllocationChangesNothing ==
  /\ [][ \A k \in DOMAIN allocs :
          (AllocEnds(k) /\ ~AllocCommitsNow(k))
          => (events' = events /\ tickets' = tickets) ]_vars
  /\ [][ (events' # events \/ tickets' # tickets)
          => \E k \in DOMAIN allocs :
               LET e == intents[k[2]].event_id
                   q == intents[k[2]].requested_quantity
               IN /\ AllocEnds(k)
                  /\ events' = [events EXCEPT
                       ![e].available_tickets = events[e].available_tickets - q,
                       ![e].version = events[e].version + 1]
                  /\ tickets' = tickets (+) (TicketRow(e, k[2]) :> q) ]_vars

\* a call was refused for too few tickets after another one had committed,
\* and nothing of the refused intent is in the inventory
FailedAllocationWitness ==
  \E k \in DOMAIN tasks :
    /\ tasks[k].pc = "wr_failed"
    /\ events[intents[k[2]].event_id].available_tickets
         < intents[k[2]].requested_quantity
    /\ TicketsOfPurchase(k[2]) = 0
    /\ tickets # EmptyBag

\* the invocations processor p starts in this step
Started(p) ==
  {i \in AllIntents : tasks[<<p, i>>].pc = "idle" /\ tasks'[<<p, i>>].pc = "claim"}

\* the intents processor p is about to claim after this step: the ones whose
\* invocation it starts and the waiting ones whose invocation has not made its
\* claim yet
Tried(p, e) ==
  Started(p) \cup {i \in AllIntents : /\ intents[i].event_id = e
                                      /\ intents[i].status = WAITING
                                      /\ tasks[<<p, i>>].pc = "claim"}

\* C32: when a tick starts invocations for an event, the intents the
\* processor is about to claim are WAITING intents of that event, there are
\* min(MAX_CONCURRENT_PROCESSING, n) of them (n = number of WAITING intents of
\* the event), and no WAITING intent of the event that is left out arrived
\* before one of them.
BatchIsOldestWaiting ==
  [][ \A p \in Procs : Started(p) # {} =>
        \E e \in Events :
          LET waiting == {i \in AllIntents : /\ intents[i].event_id = e
                                             /\ intents[i].status = WAITING}
              n == Cardinality(waiting)
          IN /\ Started(p) \subseteq waiting
             /\ Cardinality(Tried(p, e))
                  = IF n < MAX_CONCURRENT_PROCESSING THEN n
                    ELSE MAX_CONCURRENT_PROCESSING
             /\ \A a \in Tried(p, e) : \A b \in waiting \ Tried(p, e) :
                  intents[a].request_timestamp <= intents[b].request_timestamp
    ]_vars

\* a tick took the first MAX_CONCURRENT_PROCESSING intents of a longer queue
\* and left the next one waiting
BatchIsOldestWaitingWitness ==
  /\ Len(intents) > MAX_CONCURRENT_PROCESSING
  /\ \A i \in AllIntents : intents[i].status = WAITING
  /\ \A i \in 1..MAX_CONCURRENT_PROCESSING : tasks[<<1, i>>].pc = "claim"
  /\ tasks[<<1, MAX_CONCURRENT_PROCESSING + 1>>].pc = "idle"

\* ------------------- event discovery: QueueService.processQueues and
\* getEventsWithPendingIntents
\* getTotalActiveIntents: count of the WAITING and PROCESSING rows
TotalActiveIntents ==
  Cardinality({i \in AllIntents : IsActive(intents[i].status)})

\* a totalActive that forgets the waiting count
TotalActiveProcessingOnly(counts) == counts[PROCESSING]

\* totalActive of getEventQueueStats
TotalActive(counts) == counts[WAITING] + counts[PROCESSING]

\* The cron tick of processor p fires: getTotalActiveIntents, and the tick is
\* over with no event when it is 0.  first remembers how many intents exist
\* when the tick starts.
DiscoverStart(p) ==
  /\ queries.pc = "free"
  /\ queries' = [NoQuery EXCEPT
       !.pc = IF TotalActiveIntents = 0 THEN "dispatch" ELSE "findall",
       !.kind = "discover",
       !.proc = p,
       !.first = Len(intents)]
  /\ UNCHANGED <<now, events, tickets, intents, reqs, cancels, tasks, allocs,
                 completedLog, faults>>

\* eventRepository.findAll()
DiscoverFindAll ==
  /\ queries.pc = "findall"
  /\ queries' = [queries EXCEPT !.pc = "next", !.todo = DOMAIN events]
  /\ UNCHANGED <<now, events, tickets, intents, reqs, cancels, tasks, allocs,
                 completedLog, faults>>

\* The loop over allEvents takes the next event and issues the five count
\* queries of getEventQueueStats, or is over: the list is returned and
\* processEventQueue is to be called for each of its events.
DiscoverNext ==
  /\ queries.pc = "next"
  /\ IF queries.todo = {}
     THEN queries' = [queries EXCEPT !.pc = "dispatch", !.todo = queries.found]
     ELSE \E e \in queries.todo :
            /\ \A x \in queries.todo : events[e].date <= events[x].date
            /\ queries' = [queries EXCEPT !.pc = "dstats", !.event = e,
                                          !.todo = @ \ {e},
                                          !.left = Statuses,
                                          !.counts = NoQuery.counts]
  /\ UNCHANGED <<now, events, tickets, intents, reqs, cancels, tasks, allocs,
                 completedLog, faults>>

\* One of the five count queries runs; after the last one the event is pushed
\* to the list when stats.totalActive > 0.
DiscoverCount(st) ==
  /\ queries.pc = "dstats"
  /\ st \in queries.left
  /\ LET counts == [queries.counts EXCEPT ![st] = CountStatus(queries.event, st)]
     IN queries' = [queries EXCEPT
          !.pc = IF queries.left = {st} THEN "next" ELSE "dstats",
          !.left = @ \ {st},
          !.counts = counts,
          !.found = IF queries.left = {st} /\ TotalActive(counts) > 0
                    THEN @ \cup {queries.event} ELSE @]
  /\ UNCHANGED <<now, events, tickets, intents, reqs, cancels, tasks, allocs,
                 completedLog, faults>>

\* processEventQueue(e) for an event of the list: the batch query, and one
\* processIntent per row of the batch
DiscoverDispatch(e) ==
  /\ queries.pc = "dispatch"
  /\ e \in queries.todo
  /\ queries' = [queries EXCEPT !.todo = @ \ {e}]
  /\ \E S \in NextIntentsToProcess(e, MAX_CONCURRENT_PROCESSING) :
       tasks' = [k \in DOMAIN tasks |->
                   IF /\ k[1] = queries.proc
                      /\ k[2] \in S
                      /\ tasks[k].pc = "idle"
                   THEN [pc |-> "claim", attempts |-> 0]
                   ELSE tasks[k]]
  /\ UNCHANGED <<now, events, tickets, intents, reqs, cancels, allocs,
                 completedLog, faults>>

\* processEventQueue was called for every event of the list: the tick is over
DiscoverEnd ==
  /\ queries.pc = "dispatch"
  /\ queries.todo = {}
  /\ queries' = NoQuery
  /\ UNCHANGED <<now, events, tickets, intents, reqs, cancels, tasks, allocs,
                 completedLog, faults>>

DiscoverSteps ==
  \/ \E p \in Procs : DiscoverStart(p)
  \/ DiscoverFindAll
  \/ DiscoverNext
  \/ \E st \in Statuses : DiscoverCount(st)
  \/ \E e \in Events : DiscoverDispatch(e)
  \/ DiscoverEnd

\* the invocations and transactions a tick has started, when no call times
\* out or raises
InvocationSteps ==
  \/ \E p \in Procs, i \in AllIntents : TaskClaim(p, i)
  \/ \E p \in Procs, i \in AllIntents : TaskStatusWrite(p, i)
  \/ \E p \in Procs, i \in AllIntents, a \in Attempts : AllocLock(p, i, a)
  \/ \E p \in Procs, i \in AllIntents, a \in Attempts : AllocFinish(p, i, a)

\* Ticks with their event discovery, while buyers submit.
NextDiscover ==
  \/ IntakeSteps(ReqSlots)
  \/ DiscoverSteps
  \/ InvocationSteps

SpecDiscover == Init /\ [][NextDiscover]_vars

\* C33: the list of events a tick works on contains the event of every
\* intent that was WAITING before the discovery started and is WAITING still.
DiscoveryFindsWaiting ==
  (queries.kind = "discover" /\ queries.pc = "dispatch")
  => \A i \in 1..queries.first :
       intents[i].status = WAITING => intents[i].event_id \in queries.found

\* a discovery has returned an event that has an intent waiting since before
\* the tick
DiscoveryFindsWaitingWitness ==
  /\ queries.kind = "discover"
  /\ queries.pc = "dispatch"
  /\ queries.found # {}
  /\ \E i \in 1..queries.first : intents[i].status = WAITING

\* C34: a step that changes a row of events or the rows of tickets is the
\* commit of a purchaseTickets transaction; no other step (intake, claim,
\* status write, cancellation, sweeper, query) changes them, and no step
\* takes a ticket row away or changes the date or total_tickets of an event.
OnlyAllocatorWritesInventory ==
  /\ [][ (events' # events \/ tickets' # tickets)
          => \E k \in DOMAIN allocs : AllocCommitsNow(k) ]_vars
  /\ [][ \A t \in DOMAIN tickets :
          t \in DOMAIN tickets' /\ tickets'[t] >= tickets[t] ]_vars
  /\ [][ \A e \in DOMAIN events :
          /\ events'[e].date = events[e].date
          /\ events'[e].total_tickets = events[e].total_tickets ]_vars

\* tickets have been sold, and an intent has been cancelled, another expired
\* by the sweeper or refused, and the tickets sold are all there
OnlyAllocatorWritesInventoryWitness ==
  /\ tickets # EmptyBag
  /\ \E i \in AllIntents :
       intents[i].status \in {EXPIRED, FAILED} /\ TicketsOfPurchase(i) = 0
  /\ \A e \in DOMAIN events :
       events[e].version > InitialVersion
       /\ TicketsOfEvent(e) = events[e].total_tickets - events[e].available_tickets

\* Number of purchaseTickets transactions that have committed for event e:
\* a commit adds requested_quantity ticket rows of its intent, and rows are
\* never taken away.
CommittedAllocations(e) ==
  LET RECURSIVE Sum(_)
      Sum(I) == IF I = {} THEN 0
                ELSE LET i == CHOOSE x \in I : TRUE
                     IN TicketsOfPurchase(i) \div intents[i].requested_quantity
                        + Sum(I \ {i})
  IN Sum(IntentsOf(e))

\* C35: the version of an event is InitialVersion plus the number of
\* transactions that have committed for it; a commit raises it by exactly
\* one, and no other step changes it.
VersionCountsCommits ==
  /\ [](\A e \in DOMAIN events :
          events[e].version = InitialVersion + CommittedAllocations(e))
  /\ [][ \A e \in DOMAIN events :
          \/ events'[e].version = events[e].version
          \/ /\ events'[e].version = events[e].version + 1
             /\ \E k \in DOMAIN allocs :
                  AllocCommitsNow(k) /\ intents[k[2]].event_id = e ]_vars
  /\ [][ \A k \in DOMAIN allocs :
          AllocCommitsNow(k)
          => events'[intents[k[2]].event_id].version
               = events[intents[k[2]].event_id].version + 1 ]_vars

\* two transactions have committed for an event, and one was given up or
\* refused
VersionCountsCommitsWitness ==
  \E e \in DOMAIN events :
    /\ events[e].version = InitialVersion + 2
    /\ CommittedAllocations(e) = 2
    /\ faults < MaxFaults

\* no invocation and no transaction of intent i is in flight
Settled(i) ==
  /\ \A k \in DOMAIN tasks : k[2] = i => tasks[k].pc = "idle"
  /\ \A k \in DOMAIN allocs : k[2] = i => allocs[k].st = "none"

\* C36: an intent that is FAILED or EXPIRED, with no invocation and no
\* transaction of it in flight any more, has no ticket rows.
FailedOrExpiredHasNoTickets ==
  \A i \in AllIntents :
    (intents[i].status \in {FAILED, EXPIRED} /\ Settled(i))
    => TicketsOfPurchase(i) = 0

\* Overlapping workers when markIntentAsProcessing can raise an error and no
\* other call fails: the outer catch of processIntent is entered only by an
\* invocation whose claim raised.
ClaimErrorSteps ==
  \E p \in Workers, i \in AllIntents : TaskClaimError(p, i)

NextClaimRace ==
  \/ IntakeSteps(ReqSlots)
  \/ WorkerSteps
  \/ ClaimErrorSteps

SpecClaimRace == InitWorkers /\ [][NextClaimRace]_vars

\* C37: an invocation whose claim raised an error, for an intent another
\* worker has claimed, returns without changing the status of the intent.
ClaimLoserNeverWrites ==
  [][ \A k \in DOMAIN tasks :
        ( /\ tasks[k].pc = "wr_catch"
          /\ tasks[k].attempts = 0
          /\ tasks'[k] = NoTask
          /\ intents[k[2]].status # WAITING )
        => intents'[k[2]].status = intents[k[2]].status ]_vars

\* the intents of event e that are PROCESSING
ProcessingOf(e) == {i \in IntentsOf(e) : intents[i].status = PROCESSING}

\* C38: at most MAX_CONCURRENT_PROCESSING intents of an event are PROCESSING
\* at the same time.
ProcessingAtMostBatch ==
  \A e \in DOMAIN events :
    Cardinality(ProcessingOf(e)) <= MAX_CONCURRENT_PROCESSING

\* ------------------- a client that polls the status of its intent
\* The caller has the position of intent queries.intent in its response and
\* asks for the status of the same intent again (getIntentStatus); previous
\* is the position it was told last.
PositionAgain ==
  /\ queries.pc = "done"
  /\ queries.kind = "position"
  /\ queries.position > 0
  /\ queries' = [NoQuery EXCEPT
       !.pc = IF IsActive(intents[queries.intent].status) THEN "find" ELSE "done",
       !.kind = "position",
       !.intent = queries.intent,
       !.previous = queries.position]
  /\ UNCHANGED <<now, events, tickets, intents, reqs, cancels, tasks, allocs,
                 completedLog, faults>>

\* Status polling while buyers submit concurrently and the clock moves on by
\* milliseconds, in the two seconds before the next tick of the processor.
NextPoll ==
  \/ MillisecondStep
  \/ IntakeSteps(IntakeSlots)
  \/ PositionSteps
  \/ PositionAgain

SpecPoll == Init /\ [][NextPoll]_vars

\* C39: the position reported for an intent that is WAITING or PROCESSING,
\* and is the only active intent of its session for the event, is not larger
\* than the position the previous query for the same intent reported.
PositionNeverIncreases ==
  [][ ( /\ queries.pc = "count"
        /\ queries'.pc = "done"
        /\ queries.previous > 0
        /\ IsActive(intents[queries.intent].status)
        /\ ActiveIntentsOf(intents[queries.intent].user_session_id,
                           intents[queries.intent].event_id)
             = {queries.intent} )
      => queries'.position <= queries.previous
    ]_vars

\* ------------------------------------ transactions contending for row locks
\* One more event than the other specifications have, and two waiting
\* intents of one ticket for each event, created one millisecond apart.
LockEvents == 1..(NumEvents + 1)
LockIntents == 1..(2 * (NumEvents + 1))

InitLocks ==
  /\ now = 2 * (NumEvents + 1)
  /\ events = [e \in LockEvents |-> NewEvent(EventDate, TotalTickets)]
  /\ tickets = EmptyBag
  /\ intents = [k \in LockIntents |->
                  NewIntent(1 + (k % (NumEvents + 1)), k, 1, k - 1)]
  /\ reqs = [r \in IntakeSlots |-> NoReq]
  /\ cancels = NoCancel
  /\ tasks = [k \in Procs \X LockIntents |-> NoTask]
  /\ allocs = [k \in Procs \X LockIntents \X Attempts |-> NoAlloc]
  /\ completedLog = << >>
  /\ faults = MaxFaults
  /\ queries = NoQuery

\* The processor on these events; an attempt may time out, so that the
\* transaction it gave up and the one of the retry are open together.
LockSteps ==
  \/ \E p \in Procs, e \in LockEvents : Tick(p, e)
  \/ \E p \in Procs, i \in AllIntents : TaskClaim(p, i)
  \/ \E p \in Procs, i \in AllIntents : TaskTimeout(p, i)
  \/ \E p \in Procs, i \in AllIntents : TaskRetry(p, i)
  \/ \E p \in Procs, i \in AllIntents : TaskStatusWrite(p, i)
  \/ \E p \in Procs, i \in AllIntents, a \in Attempts : AllocLock(p, i, a)
  \/ \E p \in Procs, i \in AllIntents, a \in Attempts : AllocFinish(p, i, a)

LockFairness ==
  /\ \A p \in Procs, e \in LockEvents : WF_vars(Tick(p, e))
  /\ \A p \in Procs, i \in LockIntents : WF_vars(TaskStep(p, i))
  /\ \A p \in Procs, i \in LockIntents, a \in Attempts :
       WF_vars(AllocStep(p, i, a))

SpecLocks == InitLocks /\ [][LockSteps]_vars /\ LockFairness

\* the open transactions, and the ones that hold the row lock of event e
OpenAllocs == {k \in DOMAIN allocs : allocs[k].st # "none"}
LockHolders(e) ==
  {k \in DOMAIN allocs : allocs[k].st = "locked" /\ intents[k[2]].event_id = e}

\* C40: the row of an event is locked by at most one transaction; whenever
\* transactions are open, one of them holds its lock and can end, or one of
\* them waits for a row that is free; and every transaction ends: from some
\* moment on none is open.
NoAllocatorDeadlock ==
  /\ [](\A e \in DOMAIN events : Cardinality(LockHolders(e)) <= 1)
  /\ [](OpenAllocs # {}
         => \E k \in OpenAllocs :
              \/ allocs[k].st = "locked"
              \/ allocs[k].st = "begin" /\ LockFree(intents[k[2]].event_id))
  /\ <>[](OpenAllocs = {})

\* two transactions hold the locks of two events while two more wait for
\* those rows
NoAllocatorDeadlockWitness ==
  /\ \A e \in DOMAIN events : Cardinality(LockHolders(e)) = 1
  /\ Cardinality(DOMAIN events) > 1
  /\ \A e \in DOMAIN events :
       \E k \in OpenAllocs :
         allocs[k].st = "begin" /\ intents[k[2]].event_id = e

====
